---- MODULE Spec2Model ----
(***************************************************************************)
(* A model of the goja debugger (debugger.go): the breakpoint table, the   *)
(* pause predicate checkBreakpoint, the pause site handlePause, the resume *)
(* commands and the VM dispatch loop that drives them.                     *)
(***************************************************************************)
EXTENDS Integers, Sequences, FiniteSets, TLC

VARIABLES
    dbg,            \* the Debugger's scalar fields (flags, stepMode, stepDepth, ...)
    breakpoints,    \* Debugger.breakpoints: id -> Breakpoint
    pcBreakpoints,  \* Debugger.pcBreakpoints: pc -> id of the indexed Breakpoint
    vm,             \* the VM: current program, pc, saved contexts
    phase,          \* where the VM thread is: idle, check, exec, handler, done
    resume,         \* what the pause site does once the handler has returned
    state,          \* the DebuggerState handed to the running handler
    lastCheck,      \* checkBreakpoint's inputs and result for the current instruction
    issue,          \* where and with what the latest resume command was issued
    seen,           \* kinds of context (js, native) the handler was invoked in,
                    \* and "again" once it has been invoked more than once
    ops,            \* API calls made so far
    api,            \* the latest breakpoint-table or Pause call and what it returned
    listed,         \* the Breakpoints the latest GetBreakpoints returned
    outer,          \* the contexts suspended by running evaluator calls
    budget,         \* how many API calls the host makes in this run
    fnName,         \* the name property of the script's native function
    debugMode,      \* RuntimeOptions.EnableDebugMode of the runtime
    variableRefs,   \* Debugger.variableRefs: handle -> scope descriptor or object
    nextVarRef,     \* Debugger.nextVarRef
    answer,         \* the latest inspection call and what it returned
    globalObject,   \* Runtime.globalObject
    stash,          \* the bindings of the script that were assigned to
    mu              \* Debugger.mu: the read locks held

vars == <<dbg, breakpoints, pcBreakpoints, vm, phase, resume, state,
          lastCheck, issue, seen, ops, api, listed, outer, budget,
          fnName, debugMode, variableRefs, nextVarRef, answer, globalObject, stash,
          mu>>

---------------------------------------------------------------------------
\* Bounds of the model.
MaxOps == 2
MaxEvalDepth == 1
MaxTableOps == 4
MaxInspectOps == 3
MaxEvalOps == 3
MaxRunOps == 3
MaxStepOps == 3

---------------------------------------------------------------------------
\* DebugFlags and DebugCommand.
FlagStepMode == "FlagStepMode"
FlagPaused == "FlagPaused"

DebugContinue == "DebugContinue"
DebugStepOver == "DebugStepOver"
DebugStepInto == "DebugStepInto"
DebugStepOut == "DebugStepOut"
DebugPause == "DebugPause"

DebugCommand == {DebugContinue, DebugStepOver, DebugStepInto, DebugStepOut, DebugPause}

NoPrg == "nil"
None == -1
NoHandler == "nil"

---------------------------------------------------------------------------
\* The compiled programs of the script under debug. pc is 0-based; srcMap
\* holds the source line of each pc (-1: no source position) and may be
\* shorter than code.
I(o) == [op |-> o, target |-> NoPrg]
Call(t) == [op |-> "call", target |-> t]

Programs ==
    [main |-> [file |-> "a.js",
               code |-> <<I("op"), I("op"), Call("f"), I("op"),
                          I("debugger"), I("ret")>>,
               srcMap |-> <<1, 2, 2, 2, 3, -1>>],
     f    |-> [file |-> "a.js",
               code |-> <<I("op"), I("op"), Call("native"), I("op"),
                          Call("g"), I("ret")>>,
               srcMap |-> <<-1, 5, 6, 6, 7, 8>>],
     g    |-> [file |-> "a.js",
               code |-> <<I("op"), I("op"), I("op"), I("ret")>>,
               srcMap |-> <<9, 9, 10>>],
     expr |-> [file |-> "<eval>",
               code |-> <<I("assign"), I("ret")>>,
               srcMap |-> <<-1, 1>>],
     h    |-> [file |-> "c.js",
               code |-> <<Call("g"), I("op"), I("ret")>>,
               srcMap |-> <<11>>]]

PrgNames == DOMAIN Programs
NativeFuncs == {"native"}

\* What the host may ask breakpoints for: (filename, line).
BpTargets == {<<"a.js", 2>>, <<"a.js", 6>>, <<"b.js", 2>>}

\* What a registered handler answers: any command, or always the same one;
\* a faulty handler answers Continue when it does not panic, a probing one
\* evaluates expressions before it answers Continue.
Policies == {"any", "continue", "over", "faulty", "probe"}

Answers(h) ==
    CASE h \in {"continue", "faulty", "probe"} -> {DebugContinue}
      [] h = "over" -> {DebugStepOver}
      [] OTHER -> DebugCommand

---------------------------------------------------------------------------
\* Reading the current instruction and its source line.
Depth == Len(vm.callStack)

InNative == vm.prg = NoPrg

Instr(p, c) ==
    IF p \in PrgNames /\ c >= 0 /\ c < Len(Programs[p].code)
    THEN Programs[p].code[c + 1]
    ELSE I("none")

\* debugger.go 369-376: the line of pc, -1 when the source map has none.
CurrentLine(p, c) ==
    IF p \in PrgNames /\ c >= 0 /\ c < Len(Programs[p].srcMap)
       /\ Programs[p].srcMap[c + 1] >= 0
    THEN Programs[p].srcMap[c + 1]
    ELSE -1

\* debugger.go 351-356: the instruction at pc is of type call.
IsCall(p, c) == Instr(p, c).op = "call"

---------------------------------------------------------------------------
\* The resume commands and flag setters, as functions of the Debugger's
\* scalar fields d and, where the code reads it, len(vm.callStack).

\* debugger.go 223-235
SetStepMode(d, enabled) ==
    IF enabled
    THEN [d EXCEPT !.flags = @ \cup {FlagStepMode}, !.stepMode = DebugStepInto]
    ELSE [d EXCEPT !.flags = @ \ {FlagStepMode}]

\* A Continue that leaves the paused flag set.
Continue_KeepsPaused(d) ==
    [d EXCEPT !.stepMode = DebugContinue]

\* A Continue that goes on stepping.
Continue_KeepsStepping(d) ==
    [d EXCEPT !.flags = (@ \ {FlagPaused}) \cup {FlagStepMode},
              !.stepMode = DebugStepInto]

\* A Continue that also leaves step mode.
Continue_ClearsStepMode(d) ==
    [d EXCEPT !.flags = @ \ {FlagPaused, FlagStepMode}, !.stepMode = DebugContinue]

\* debugger.go 238-244
Continue(d) ==
    [d EXCEPT !.flags = @ \ {FlagPaused}, !.stepMode = DebugContinue]

\* debugger.go 247-258
StepOver(d, depth) ==
    [d EXCEPT !.flags = (@ \cup {FlagStepMode}) \ {FlagPaused},
              !.stepMode = DebugStepOver,
              !.stepDepth = depth,
              !.lastPC = -1,
              !.lastSourceLine = -1]

\* debugger.go 261-269
StepInto(d) ==
    [d EXCEPT !.flags = (@ \cup {FlagStepMode}) \ {FlagPaused},
              !.stepMode = DebugStepInto]

\* debugger.go 272-279
StepOut(d, depth) ==
    [d EXCEPT !.flags = @ \ {FlagPaused},
              !.stepMode = DebugStepOut,
              !.stepDepth = depth - 1]

\* debugger.go 282-287
Pause(d) == [d EXCEPT !.flags = @ \cup {FlagPaused}]

\* debugger.go 555-567: the switch on the handler's answer.
Dispatch(d, cmd, depth) ==
    CASE cmd = DebugContinue -> Continue(d)
      [] cmd = DebugStepOver -> StepOver(d, depth)
      [] cmd = DebugStepInto -> StepInto(d)
      [] cmd = DebugStepOut -> StepOut(d, depth)
      [] OTHER -> d

---------------------------------------------------------------------------
\* The pause predicate.

\* A native short-circuit that honours only the async pause flag.
NativeShouldPause_PausedOnly(flags, indexed) ==
    FlagPaused \in flags

\* A native short-circuit that goes on to the breakpoint index.
NativeShouldPause_ChecksIndex(flags, indexed) ==
    FlagPaused \in flags \/ FlagStepMode \in flags \/ indexed

\* debugger.go 339-346: in a native context only the two flags decide;
\* indexed (an enabled breakpoint is indexed at vm.pc) is not consulted.
NativeShouldPause(flags, indexed) ==
    FlagPaused \in flags \/ FlagStepMode \in flags

\* debugger.go 349-365: step-into about to execute a call defers the pause.
StepIntoDefers(flags, stepMode, isCall) ==
    FlagStepMode \in flags /\ stepMode = DebugStepInto /\ isCall

\* debugger.go 387: pcBreakpoints has an entry for pc and it is enabled.
BreakpointAt(pcb, bps, c) ==
    IF c \in DOMAIN pcb /\ bps[pcb[c]].enabled THEN pcb[c] ELSE None

\* debugger.go 402-441: the StepOver case at depth <= stepDepth.
StepOverPauses(depth, stepDepth, currentLine, lastSourceLine) ==
    /\ depth <= stepDepth
    /\ LET isFirstStep == lastSourceLine = -1
           isDifferentLine == currentLine > 0 /\ currentLine # lastSourceLine
           isReturning == depth < stepDepth
       IN  /\ isFirstStep \/ isDifferentLine \/ isReturning
           /\ currentLine > 0 \/ isReturning

\* debugger.go 446-452
StepOutPauses(depth, stepDepth) == depth < stepDepth

\* debugger.go 394-454: the step-mode switch; the name of the case that
\* pauses, or "none".
StepModePauses(d, depth, currentLine) ==
    IF FlagStepMode \notin d.flags THEN "none"
    ELSE CASE d.stepMode = DebugStepInto -> "stepinto"
           [] d.stepMode = DebugStepOver ->
                IF StepOverPauses(depth, d.stepDepth, currentLine, d.lastSourceLine)
                THEN "stepover" ELSE "none"
           [] d.stepMode = DebugStepOut ->
                IF StepOutPauses(depth, d.stepDepth) THEN "stepout" ELSE "none"
           [] OTHER -> "none"

\* A predicate that ends stepping when it hits a breakpoint.
checkBreakpoint_HitEndsStepping(d, pcb, bps, p, c, depth) ==
    LET out(r, w, nd, h) == [ret |-> r, why |-> w, d |-> nd, hit |-> h]
        paused == [d EXCEPT !.flags = @ \cup {FlagPaused}]
        bp == BreakpointAt(pcb, bps, c)
        step == StepModePauses(d, depth, CurrentLine(p, c))
    IN  IF p = NoPrg
        THEN out(NativeShouldPause(d.flags, bp # None), "native", d, None)
        ELSE IF StepIntoDefers(d.flags, d.stepMode, IsCall(p, c))
        THEN out(FALSE, "defer", [d EXCEPT !.continueStepAfterCall = TRUE], None)
        ELSE IF FlagPaused \in d.flags
        THEN out(TRUE, "paused", d, None)
        ELSE IF bp # None
        THEN out(TRUE, "breakpoint",
                 [d EXCEPT !.flags = {FlagPaused},
                           !.stepMode = DebugContinue], bp)
        ELSE IF step # "none"
        THEN out(TRUE, step, paused, None)
        ELSE out(FALSE, "none", d, None)

\* debugger.go 333-457: checkBreakpoint(vm). ret is the returned bool, why
\* names the return statement taken, d the Debugger's fields afterwards and
\* hit the breakpoint whose hit count was incremented (None: no one's).
checkBreakpoint(d, pcb, bps, p, c, depth) ==
    LET out(r, w, nd, h) == [ret |-> r, why |-> w, d |-> nd, hit |-> h]
        paused == [d EXCEPT !.flags = @ \cup {FlagPaused}]
        bp == BreakpointAt(pcb, bps, c)
        step == StepModePauses(d, depth, CurrentLine(p, c))
    IN  IF p = NoPrg
        THEN out(NativeShouldPause(d.flags, bp # None), "native", d, None)
        ELSE IF StepIntoDefers(d.flags, d.stepMode, IsCall(p, c))
        THEN out(FALSE, "defer", [d EXCEPT !.continueStepAfterCall = TRUE], None)
        ELSE IF FlagPaused \in d.flags
        THEN out(TRUE, "paused", d, None)
        ELSE IF bp # None
        THEN out(TRUE, "breakpoint", paused, bp)
        ELSE IF step # "none"
        THEN out(TRUE, step, paused, None)
        ELSE out(FALSE, "none", d, None)

---------------------------------------------------------------------------
\* The breakpoint table.

\* debugger.go 299-314: the pcs of program p whose source-map entry is on
\* (file, line).
MatchingPCs(p, file, line) ==
    IF p \in PrgNames /\ Programs[p].file = file
    THEN {c \in 0..(Len(Programs[p].code) - 1) :
            /\ c < Len(Programs[p].srcMap)
            /\ Programs[p].srcMap[c + 1] >= 0
            /\ Programs[p].srcMap[c + 1] = line}
    ELSE {}

\* A resolution that keeps the last pc of the line instead of the first.
ResolvePC_LastMatch(p, file, line) ==
    LET m == MatchingPCs(p, file, line)
    IN  IF m = {} THEN None ELSE CHOOSE c \in m : \A x \in m : c >= x

\* debugger.go 290-318: the pc resolveBreakpoint gives a breakpoint on
\* (file, line) against program p; None when it stays unresolved.
ResolvePC(p, file, line) ==
    LET m == MatchingPCs(p, file, line)
    IN  IF m = {} THEN None ELSE CHOOSE c \in m : \A x \in m : c <= x

\* debugger.go 154-163: a fresh Breakpoint.
NewBreakpoint(file, line, column) ==
    [file |-> file, line |-> line, column |-> column, pc |-> None,
     enabled |-> TRUE, hit |-> 0]

\* The function f with key k set to v (k may be new).
Put(f, k, v) == [x \in DOMAIN f \cup {k} |-> IF x = k THEN v ELSE f[x]]

\* The function f without key k.
Del(f, k) == [x \in DOMAIN f \ {k} |-> f[x]]

---------------------------------------------------------------------------
\* The snapshot and the pause site.

NoState ==
    [PC |-> None, Line |-> 0, Breakpoint |-> None, StepMode |-> FALSE,
     InNativeCall |-> FALSE, Depth |-> 0, CallStack |-> <<>>,
     DebugStack |-> <<>>]

\* runtime.CaptureCallStack(0, nil): one StackFrame per active call, the
\* innermost (the code running now) first, then the saved contexts from the
\* newest to the oldest.
CaptureCallStack ==
    LET n == Len(vm.callStack)
    IN  <<[prg |-> vm.prg, pc |-> vm.pc]>> \o
        [k \in 1..n |-> vm.callStack[n + 1 - k]]

\* A buildDebugStack that gives every frame a Global scope.
buildDebugStack_GlobalEverywhere(callStack) ==
    [k \in 1..Len(callStack) |->
        LET i == k - 1
        IN  [StackFrame |-> callStack[k],
             Scopes |->
                <<[Name |-> "Local", VariablesRef |-> -(i * 10 + 1),
                   Expensive |-> FALSE],
                  [Name |-> "Global", VariablesRef |-> -(i * 10 + 2),
                   Expensive |-> TRUE]>>]]

\* debugger.go 967-1012: frame i (0-based, k = i + 1 here) wraps
\* callStack[i] and gets a Local scope with the lazy reference -(i*10+1);
\* frame 0 also gets a Global scope with -(i*10+2).
buildDebugStack(callStack) ==
    [k \in 1..Len(callStack) |->
        LET i == k - 1
        IN  [StackFrame |-> callStack[k],
             Scopes |->
                <<[Name |-> "Local", VariablesRef |-> -(i * 10 + 1),
                   Expensive |-> FALSE]>> \o
                (IF i = 0
                 THEN <<[Name |-> "Global", VariablesRef |-> -(i * 10 + 2),
                         Expensive |-> TRUE]>>
                 ELSE <<>>)]]

\* debugger.go 508-539: the DebuggerState built for the handler. Line is
\* SourcePos.Line (0 when there is no source position); Breakpoint is the
\* indexed breakpoint of vm.pc, enabled or not. Depth records
\* len(vm.callStack) at the pause. CallStack and DebugStack are both taken
\* from the call stack as it is at the pause.
BuildState(d, pcb, p, c, depth) ==
    [PC |-> c,
     Line |-> IF CurrentLine(p, c) >= 0 THEN CurrentLine(p, c) ELSE 0,
     Breakpoint |-> IF c \in DOMAIN pcb THEN pcb[c] ELSE None,
     StepMode |-> FlagStepMode \in d.flags,
     InNativeCall |-> p = NoPrg,
     Depth |-> depth,
     CallStack |-> CaptureCallStack,
     DebugStack |-> buildDebugStack(CaptureCallStack)]

\* debugger.go 545-550: lastSourceLine follows the paused line.
NoteLine(d, line) ==
    IF line > 0 THEN [d EXCEPT !.lastSourceLine = line] ELSE d

\* No predicate call yet for the current instruction.
NoCheck ==
    [ret |-> FALSE, why |-> "unasked", hit |-> None, flags |-> {},
     stepMode |-> DebugContinue, bp |-> None]

\* No breakpoint-table call since the VM last moved.
NoApi == [op |-> "none", id |-> None, ret |-> FALSE]

\* No resume command yet.
NoIssue ==
    [cmd |-> "none", depth |-> 0, line |-> 0, prg |-> NoPrg, pc |-> 0,
     step |-> FALSE]

---------------------------------------------------------------------------
\* The values of the script under debug. A value is a number or an object,
\* named by its key in Objects; an object is the list of its own
\* string-keyed properties in key order. "global" is the global object.
Num(n) == [num |-> n, obj |-> "none"]
Obj(o) == [num |-> 0, obj |-> o]

Objects ==
    [global |-> <<[name |-> "x", value |-> Num(1)],
                  [name |-> "cfg", value |-> Obj("o1")]>>,
     o1     |-> <<[name |-> "a", value |-> Num(1)],
                  [name |-> "inner", value |-> Obj("o2")]>>,
     o2     |-> <<[name |-> "b", value |-> Num(2)]>>]

\* What Runtime.globalObject points to: the global object, or the object
\* EvaluateInFrame builds to carry a frame's bindings (debugger.go 890-897).
TheGlobal == [obj |-> "global", of |-> <<>>]

varsObj(props) == [obj |-> "varsObj", of |-> props]

PropsOf(g) == IF g.obj = "global" THEN Objects["global"] ELSE g.of

IsObject(v) == v.obj # "none"

\* The bindings each function declares: name, value, the pc whose
\* execution creates the binding (-1: a parameter, bound on entry), and
\* whether a closure captures the name, which keeps it in the stash when
\* the compiler is free to put the others on the stack.
Decls ==
    [main |-> <<>>,
     f    |-> <<[name |-> "p", value |-> Obj("o1"), at |-> -1,
                 captured |-> TRUE],
                [name |-> "q", value |-> Num(2), at |-> 1,
                 captured |-> FALSE]>>,
     g    |-> <<[name |-> "r", value |-> Num(3), at |-> 0,
                 captured |-> FALSE],
                [name |-> "s", value |-> Obj("o2"), at |-> 1,
                 captured |-> TRUE]>>,
     expr |-> <<>>,
     h    |-> <<>>]

\* The bindings of a frame whose declaration has executed.
Declared(frame) ==
    IF frame.prg \in PrgNames
    THEN SelectSeq(Decls[frame.prg], LAMBDA b : b.at < frame.pc)
    ELSE <<>>

\* A frame's view of its stash that drops the names a closure captures.
GetLocalVariables_DropsCaptured(frame) ==
    LET live == SelectSeq(Declared(frame), LAMBDA b : ~b.captured)
    IN  [k \in DOMAIN live |->
           IF live[k].name \in DOMAIN stash
           THEN [live[k] EXCEPT !.value = stash[live[k].name]]
           ELSE live[k]]

\* StackFrame.GetLocalVariables: the bindings of the frame that exist at
\* its pc, as name/value pairs; none for a native frame.
GetLocalVariables(frame) ==
    LET live == SelectSeq(Declared(frame),
                          LAMBDA b : debugMode \/ b.captured)
    IN  [k \in DOMAIN live |->
           IF live[k].name \in DOMAIN stash
           THEN [live[k] EXCEPT !.value = stash[live[k].name]]
           ELSE live[k]]

\* debugger.go 794-830
getValueType(v) == IF IsObject(v) THEN "object" ELSE "number"

\* No inspection call since the VM or the host last did something else.
NoAnswer ==
    [op |-> "none", arg |-> 0, scopes |-> <<>>, vars |-> {}, flag |-> FALSE,
     name |-> "", held |-> "none"]

Answer(o, a) == [NoAnswer EXCEPT !.op = o, !.arg = a]

\* A registry entry: a scope descriptor (debugger.go 604-607) or an object
\* (677).
ScopeEntry(frameID, scopeType) ==
    [frameID |-> frameID, type |-> scopeType, obj |-> "none"]

ObjectEntry(o) == [frameID |-> 0, type |-> "object", obj |-> o]

\* A Materialize that hands out handles without registering the objects.
Materialize_ForgetsObjects(props, refs, next) ==
    LET before(k) == Cardinality({j \in 1..(k - 1) : IsObject(props[j].value)})
        objs == {k \in DOMAIN props : IsObject(props[k].value)}
        refOf(k) == IF k \in objs THEN next + before(k) ELSE 0
    IN  [vars |-> {[Name |-> props[k].name, Value |-> props[k].value,
                    Type |-> getValueType(props[k].value), Ref |-> refOf(k)] :
                      k \in DOMAIN props},
         refs |-> refs,
         next |-> next + Cardinality(objs)]

\* A Materialize that leaves out the objects the registry already holds.
Materialize_SkipsRegistered(props, refs, next) ==
    LET known == {refs[r].obj : r \in DOMAIN refs}
        keep == SelectSeq(props, LAMBDA b : b.value.obj \notin known \ {"none"})
        before(k) == Cardinality({j \in 1..(k - 1) : IsObject(keep[j].value)})
        objs == {k \in DOMAIN keep : IsObject(keep[k].value)}
        refOf(k) == IF k \in objs THEN next + before(k) ELSE 0
        fresh == {refOf(k) : k \in objs}
        at(r) == CHOOSE k \in objs : refOf(k) = r
    IN  [vars |-> {[Name |-> keep[k].name, Value |-> keep[k].value,
                    Type |-> getValueType(keep[k].value), Ref |-> refOf(k)] :
                      k \in DOMAIN keep},
         refs |-> [r \in DOMAIN refs \cup fresh |->
                     IF r \in fresh THEN ObjectEntry(keep[at(r)].value.obj)
                     ELSE refs[r]],
         next |-> next + Cardinality(objs)]

\* The loops of debugger.go 665-684, 738-756 and 772-789 over the pairs
\* props: each pair becomes a Variable; a pair whose value is an object
\* takes the next free handle and registers the object under it. The
\* result is the Variables, the registry and the counter afterwards.
Materialize(props, refs, next) ==
    LET before(k) == Cardinality({j \in 1..(k - 1) : IsObject(props[j].value)})
        objs == {k \in DOMAIN props : IsObject(props[k].value)}
        refOf(k) == IF k \in objs THEN next + before(k) ELSE 0
        fresh == {refOf(k) : k \in objs}
        at(r) == CHOOSE k \in objs : refOf(k) = r
    IN  [vars |-> {[Name |-> props[k].name, Value |-> props[k].value,
                    Type |-> getValueType(props[k].value), Ref |-> refOf(k)] :
                      k \in DOMAIN props},
         refs |-> [r \in DOMAIN refs \cup fresh |->
                     IF r \in fresh THEN ObjectEntry(props[at(r)].value.obj)
                     ELSE refs[r]],
         next |-> next + Cardinality(objs)]

\* Nothing returned, nothing registered.
Nothing(refs, next) == [vars |-> {}, refs |-> refs, next |-> next]

\* debugger.go 726-758
extractGlobalVariables(refs, next) ==
    Materialize(PropsOf(globalObject), refs, next)

\* debugger.go 760-792
getObjectProperties(o, refs, next) ==
    IF o \in DOMAIN Objects THEN Materialize(Objects[o], refs, next)
    ELSE Nothing(refs, next)

\* debugger.go 648-691: the variables of scope scopeType of frame frameID
\* of the call stack as it is now.
getVariablesForScope(frameID, scopeType, refs, next) ==
    IF frameID < 0 \/ frameID >= Len(CaptureCallStack)
    THEN Nothing(refs, next)
    ELSE CASE scopeType = "local" ->
                Materialize(GetLocalVariables(CaptureCallStack[frameID + 1]),
                            refs, next)
           [] scopeType = "global" -> extractGlobalVariables(refs, next)
           [] OTHER -> Nothing(refs, next)

\* debugger.go 673-678: the local case takes the write lock for each object
\* it registers.
TakesWriteLock(frameID, scopeType) ==
    /\ frameID >= 0 /\ frameID < Len(CaptureCallStack)
    /\ scopeType = "local"
    /\ \E k \in DOMAIN GetLocalVariables(CaptureCallStack[frameID + 1]) :
          IsObject(GetLocalVariables(CaptureCallStack[frameID + 1])[k].value)

\* A resolveLazyScope that takes every unknown scope kind for local.
resolveLazyScope_AnyKindIsLocal(lazyRef, refs, next) ==
    LET absRef == -lazyRef
        frameID == absRef \div 10
        scopeID == absRef % 10
    IN  CASE scopeID = 2 -> getVariablesForScope(frameID, "global", refs, next)
          [] OTHER -> getVariablesForScope(frameID, "local", refs, next)

\* debugger.go 1014-1034: lazyRef = -(frameID*10 + scopeID).
resolveLazyScope(lazyRef, refs, next) ==
    LET absRef == -lazyRef
        frameID == absRef \div 10
        scopeID == absRef % 10
    IN  CASE scopeID = 1 -> getVariablesForScope(frameID, "local", refs, next)
          [] scopeID = 2 -> getVariablesForScope(frameID, "global", refs, next)
          [] OTHER -> Nothing(refs, next)

\* The step is no inspection call: the registry and the parameters of the
\* run stay as they are.
NoInspection ==
    /\ answer' = NoAnswer
    /\ UNCHANGED <<budget, fnName, debugMode, variableRefs,
                   nextVarRef>>

\* The step is no evaluator call either.
NoEvaluation == UNCHANGED <<globalObject, stash, mu>>

---------------------------------------------------------------------------
\* NewDebugger (debugger.go 118-139) on a fresh runtime.
Start(b, n, m) ==
    /\ budget = b
    /\ fnName = n
    /\ debugMode = m
    /\ variableRefs = <<>>
    /\ nextVarRef = 1000
    /\ answer = NoAnswer
    /\ globalObject = TheGlobal
    /\ stash = <<>>
    /\ mu = 0
    /\ dbg = [flags |-> {}, stepMode |-> DebugContinue, stepDepth |-> 0,
              lastPC |-> 0, lastSourceLine |-> 0,
              continueStepAfterCall |-> FALSE, handler |-> NoHandler,
              nextID |-> 0]
    /\ breakpoints = <<>>
    /\ pcBreakpoints = <<>>
    /\ vm = [prg |-> NoPrg, pc |-> 0, callStack |-> <<>>]
    /\ phase = "idle"
    /\ resume = "none"
    /\ state = NoState
    /\ lastCheck = NoCheck
    /\ issue = NoIssue
    /\ seen = {}
    /\ ops = 0
    /\ api = NoApi
    /\ listed = <<>>
    /\ outer = <<>>

Init == Start(MaxOps, "native", TRUE)

\* debugger.go 834-836: Evaluate keeps the read lock while the expression
\* runs; EvaluateInFrame (906) releases it first.
Locked == mu > 0

\* The host thread may call the API before the run and from the handler.
\* While an Evaluate holds the read lock a call that takes the write lock
\* does not return (HostBlocks).
HostPhase == phase \in {"idle", "handler"} /\ ~Locked

\* debugger.go 142-147
SetHandler(h) ==
    /\ NoInspection
    /\ NoEvaluation
    /\ phase = "idle"
    /\ dbg.handler # h
    /\ dbg' = [dbg EXCEPT !.handler = h]
    /\ UNCHANGED <<breakpoints, pcBreakpoints, vm, phase, resume, state,
                   lastCheck, issue, seen, ops, api, listed, outer>>

\* debugger.go 150-175
AddBreakpoint(file, line, column) ==
    /\ NoInspection
    /\ NoEvaluation
    /\ HostPhase
    /\ ops < budget
    /\ LET id == dbg.nextID
           c == IF vm.prg # NoPrg THEN ResolvePC(vm.prg, file, line) ELSE None
       IN  /\ breakpoints' =
                Put(breakpoints, id,
                    [NewBreakpoint(file, line, column) EXCEPT !.pc = c])
           /\ pcBreakpoints' =
                IF c # None THEN Put(pcBreakpoints, c, id) ELSE pcBreakpoints
    /\ dbg' = [dbg EXCEPT !.nextID = @ + 1]
    /\ ops' = ops + 1
    /\ api' = [op |-> "add", id |-> dbg.nextID, ret |-> TRUE]
    /\ UNCHANGED <<vm, phase, resume, state, lastCheck, issue, seen, listed,
                   outer>>

\* debugger.go 178-193
RemoveBreakpoint(id) ==
    /\ NoInspection
    /\ NoEvaluation
    /\ HostPhase
    /\ ops < budget
    /\ IF id \in DOMAIN breakpoints
       THEN /\ breakpoints' = Del(breakpoints, id)
            /\ pcBreakpoints' =
                 IF breakpoints[id].pc >= 0
                 THEN Del(pcBreakpoints, breakpoints[id].pc)
                 ELSE pcBreakpoints
       ELSE UNCHANGED <<breakpoints, pcBreakpoints>>
    /\ ops' = ops + 1
    /\ api' = [op |-> "remove", id |-> id, ret |-> id \in DOMAIN breakpoints]
    /\ UNCHANGED <<dbg, vm, phase, resume, state, lastCheck, issue, seen,
                   listed, outer>>

\* An EnableBreakpoint that starts the hit count afresh.
EnableBreakpoint_ResetsHit(id, enabled) ==
    /\ NoInspection
    /\ NoEvaluation
    /\ HostPhase
    /\ ops < budget
    /\ IF id \in DOMAIN breakpoints
       THEN breakpoints' = [breakpoints EXCEPT ![id].enabled = enabled,
                                               ![id].hit = 0]
       ELSE UNCHANGED breakpoints
    /\ ops' = ops + 1
    /\ api' = [op |-> "enable", id |-> id, ret |-> id \in DOMAIN breakpoints]
    /\ UNCHANGED <<dbg, pcBreakpoints, vm, phase, resume, state, lastCheck,
                   issue, seen, listed, outer>>

\* An EnableBreakpoint that applies an unknown id to the whole table.
EnableBreakpoint_AnyId(id, enabled) ==
    /\ NoInspection
    /\ NoEvaluation
    /\ HostPhase
    /\ ops < budget
    /\ IF id \in DOMAIN breakpoints
       THEN breakpoints' = [breakpoints EXCEPT ![id].enabled = enabled]
       ELSE breakpoints' =
                [x \in DOMAIN breakpoints |->
                    [breakpoints[x] EXCEPT !.enabled = enabled]]
    /\ ops' = ops + 1
    /\ api' = [op |-> "enable", id |-> id, ret |-> id \in DOMAIN breakpoints]
    /\ UNCHANGED <<dbg, pcBreakpoints, vm, phase, resume, state, lastCheck,
                   issue, seen, listed, outer>>

\* debugger.go 196-207
EnableBreakpoint(id, enabled) ==
    /\ NoInspection
    /\ NoEvaluation
    /\ HostPhase
    /\ ops < budget
    /\ IF id \in DOMAIN breakpoints
       THEN breakpoints' = [breakpoints EXCEPT ![id].enabled = enabled]
       ELSE UNCHANGED breakpoints
    /\ ops' = ops + 1
    /\ api' = [op |-> "enable", id |-> id, ret |-> id \in DOMAIN breakpoints]
    /\ UNCHANGED <<dbg, pcBreakpoints, vm, phase, resume, state, lastCheck,
                   issue, seen, listed, outer>>

\* debugger.go 210-220: the result holds the table's *Breakpoint values
\* themselves; listed records what each of them held at the call.
GetBreakpoints ==
    /\ NoInspection
    /\ NoEvaluation
    /\ HostPhase
    /\ ops < budget
    /\ breakpoints # <<>>
    /\ listed' = breakpoints
    /\ ops' = ops + 1
    /\ api' = [op |-> "list", id |-> None, ret |-> TRUE]
    /\ UNCHANGED <<dbg, breakpoints, pcBreakpoints, vm, phase, resume, state,
                   lastCheck, issue, seen, outer>>

\* debugger.go 223-235, called by the host.
SetStepModeCall(enabled) ==
    /\ NoInspection
    /\ NoEvaluation
    /\ HostPhase
    /\ ops < budget
    /\ dbg' = SetStepMode(dbg, enabled)
    /\ ops' = ops + 1
    /\ api' = NoApi
    /\ UNCHANGED <<breakpoints, pcBreakpoints, vm, phase, resume, state,
                   lastCheck, issue, seen, listed, outer>>

\* debugger.go 282-287, called from any thread at any time.
PauseCall ==
    /\ NoInspection
    /\ NoEvaluation
    /\ phase \in {"idle", "check", "handler"}
    /\ ~Locked
    /\ ops < budget
    /\ dbg' = Pause(dbg)
    /\ ops' = ops + 1
    /\ api' = [op |-> "pause", id |-> None, ret |-> TRUE]
    /\ UNCHANGED <<breakpoints, pcBreakpoints, vm, phase, resume, state,
                   lastCheck, issue, seen, listed, outer>>

\* A resolution pass that tries every breakpoint again, resolved or not.
resolvePendingBreakpoints_RetriesAll(p) ==
    LET pcOf(id) == ResolvePC(p, breakpoints[id].file, breakpoints[id].line)
        fresh == {id \in DOMAIN breakpoints : pcOf(id) # None}
        pcs == {pcOf(id) : id \in fresh}
    IN  /\ breakpoints' =
             [id \in DOMAIN breakpoints |->
                 [breakpoints[id] EXCEPT !.pc = pcOf(id)]]
        /\ \E idx \in [pcs -> fresh] :
             /\ \A c \in pcs : pcOf(idx[c]) = c
             /\ pcBreakpoints' =
                  [c \in DOMAIN pcBreakpoints \cup pcs |->
                     IF c \in pcs THEN idx[c] ELSE pcBreakpoints[c]]

\* debugger.go 321-330 with program p loaded: every breakpoint without a
\* pc is resolved against p. The table is a Go map, ranged over in any
\* order, so when several pending breakpoints resolve to one pc any of
\* them ends indexed.
resolvePendingBreakpoints(p) ==
    LET pcOf(id) == IF breakpoints[id].pc < 0
                    THEN ResolvePC(p, breakpoints[id].file,
                                   breakpoints[id].line)
                    ELSE None
        fresh == {id \in DOMAIN breakpoints : pcOf(id) # None}
        pcs == {pcOf(id) : id \in fresh}
    IN  /\ breakpoints' =
             [id \in DOMAIN breakpoints |->
                 IF id \in fresh
                 THEN [breakpoints[id] EXCEPT !.pc = pcOf(id)]
                 ELSE breakpoints[id]]
        /\ \E idx \in [pcs -> fresh] :
             /\ \A c \in pcs : pcOf(idx[c]) = c
             /\ pcBreakpoints' =
                  [c \in DOMAIN pcBreakpoints \cup pcs |->
                     IF c \in pcs THEN idx[c] ELSE pcBreakpoints[c]]

\* The run starts: the main program is loaded at pc 0 and the pending
\* breakpoints are resolved against it.
RunProgram ==
    /\ NoInspection
    /\ NoEvaluation
    /\ phase = "idle"
    /\ resolvePendingBreakpoints("main")
    /\ vm' = [prg |-> "main", pc |-> 0, callStack |-> <<>>]
    /\ phase' = "check"
    /\ api' = NoApi
    /\ UNCHANGED <<dbg, resume, state, lastCheck, issue, seen, ops, listed,
                   outer>>

\* A later run on the same runtime and debugger: once a run is over the
\* host runs another script, the same one or the code of f as a script of
\* its own, and the pending breakpoints are resolved against it.
RunAgain(p) ==
    /\ NoInspection
    /\ NoEvaluation
    /\ phase = "done"
    /\ ops < budget
    /\ resolvePendingBreakpoints(p)
    /\ vm' = [prg |-> p, pc |-> 0, callStack |-> <<>>]
    /\ phase' = "check"
    /\ lastCheck' = NoCheck
    /\ ops' = ops + 1
    /\ api' = NoApi
    /\ UNCHANGED <<dbg, resume, state, issue, seen, listed, outer>>

---------------------------------------------------------------------------
\* The VM thread.

\* What follows a pause: after the predicate paused ("exec") the instruction
\* at pc is executed; after a pause directive ("next") the pc moves on.
Continuation(site) ==
    /\ resume' = "none"
    /\ IF site = "next"
       THEN /\ vm' = [vm EXCEPT !.pc = @ + 1]
            /\ phase' = "check"
       ELSE /\ vm' = vm
            /\ phase' = "exec"

\* debugger.go 460-550: handlePause up to the call of the handler, with d
\* the Debugger's fields on entry. Without a handler it is Continue().
\* Under an Evaluate's read lock the write locks of Continue() (239) and of
\* the lastSourceLine update (547) are never granted: the VM thread hangs.
Wedge(d) ==
    /\ dbg' = d
    /\ phase' = "wedged"
    /\ UNCHANGED <<vm, resume, state, seen>>

handlePause(d, site) ==
    IF d.handler = NoHandler
    THEN IF Locked
         THEN Wedge(d)
         ELSE /\ dbg' = Continue(d)
              /\ Continuation(site)
              /\ UNCHANGED <<state, seen>>
    ELSE IF Locked /\ CurrentLine(vm.prg, vm.pc) > 0
         THEN Wedge(d)
         ELSE /\ state' = BuildState(d, pcBreakpoints, vm.prg, vm.pc, Depth)
              /\ dbg' = NoteLine(d, state'.Line)
              /\ seen' = seen \cup {IF InNative THEN "native" ELSE "js"}
                               \cup (IF seen # {} THEN {"again"} ELSE {})
              /\ phase' = "handler"
              /\ resume' = site
              /\ vm' = vm

\* The dispatch loop asks the predicate before each instruction, and once
\* on entering a native function; on true it calls handlePause.
Check ==
    /\ NoInspection
    /\ NoEvaluation
    /\ phase = "check"
    /\ LET r == checkBreakpoint(dbg, pcBreakpoints, breakpoints, vm.prg,
                                vm.pc, Depth)
       IN  /\ lastCheck' =
                [ret |-> r.ret, why |-> r.why, hit |-> r.hit,
                 flags |-> dbg.flags, stepMode |-> dbg.stepMode,
                 bp |-> BreakpointAt(pcBreakpoints, breakpoints, vm.pc)]
           /\ breakpoints' =
                IF r.hit # None
                THEN [breakpoints EXCEPT ![r.hit].hit = @ + 1]
                ELSE breakpoints
           /\ IF r.ret
              THEN handlePause(r.d, "exec")
              ELSE /\ dbg' = r.d
                   /\ phase' = "exec"
                   /\ UNCHANGED <<vm, resume, state, seen>>
    /\ api' = NoApi
    /\ UNCHANGED <<pcBreakpoints, issue, ops, listed, outer>>

\* debugger.go 552-567: the handler returns cmd and it is dispatched.
HandlerReturn ==
    /\ NoInspection
    /\ NoEvaluation
    /\ phase = "handler"
    /\ \E cmd \in Answers(dbg.handler) :
         /\ issue' = [cmd |-> cmd, depth |-> Depth, line |-> state.Line,
                      prg |-> vm.prg, pc |-> vm.pc,
                      step |-> FlagStepMode \in dbg.flags]
         /\ IF Locked /\ cmd # DebugPause
            THEN /\ dbg' = dbg
                 /\ phase' = "wedged"
                 /\ UNCHANGED <<vm, resume, state>>
            ELSE /\ dbg' = Dispatch(dbg, cmd, Depth)
                 /\ state' = NoState
                 /\ Continuation(resume)
    /\ api' = NoApi
    /\ UNCHANGED <<breakpoints, pcBreakpoints, lastCheck, seen, ops, listed,
                   outer>>

\* debugger.go 552: the handler panics instead of returning. handlePause
\* has no recover, so the switch of 555-567 is skipped and the panic leaves
\* handlePause; the pause site either recovers and goes on, or the panic
\* ends the run.
HandlerPanics ==
    /\ NoInspection
    /\ NoEvaluation
    /\ phase = "handler"
    /\ dbg.handler = "faulty"
    /\ issue' = [cmd |-> "panic", depth |-> Depth, line |-> state.Line,
                 prg |-> vm.prg, pc |-> vm.pc,
                 step |-> FlagStepMode \in dbg.flags]
    /\ state' = NoState
    /\ \/ Continuation(resume)
       \/ /\ phase' = "aborted"
          /\ UNCHANGED <<vm, resume>>
    /\ api' = NoApi
    /\ UNCHANGED <<dbg, breakpoints, pcBreakpoints, lastCheck, seen, ops,
                   listed, outer>>

\* A call that takes the write lock (AddBreakpoint, Pause, ...) made while
\* an Evaluate holds the read lock: from the handler it never returns, from
\* another thread it waits and keeps the VM's next read lock from being
\* granted.
HostBlocks ==
    /\ NoInspection
    /\ NoEvaluation
    /\ phase \in {"check", "handler"}
    /\ Locked
    /\ phase' = "wedged"
    /\ UNCHANGED <<dbg, breakpoints, pcBreakpoints, vm, resume, state,
                   lastCheck, issue, seen, ops, api, listed, outer>>

Push == Append(vm.callStack, [prg |-> vm.prg, pc |-> vm.pc])

\* The evaluator's core: RunString runs the expression's program on the VM,
\* with the debugger as it is, and the suspended context comes back when
\* the program returns. The records of the pause under way (lastCheck,
\* issue) are set aside with it: no resume command has been issued yet to
\* the run that starts. locked: the caller keeps the read lock meanwhile;
\* restore: the caller puts Runtime.globalObject back afterwards.
RunString(locked, restore, frameIndex) ==
    /\ NoInspection
    /\ outer' = Append(outer, [vm |-> vm, resume |-> resume, state |-> state,
                               lastCheck |-> lastCheck, issue |-> issue,
                               locked |-> locked, restore |-> restore,
                               frameIndex |-> frameIndex,
                               savedGlobal |-> globalObject,
                               stash |-> stash])
    /\ vm' = [prg |-> "expr", pc |-> 0, callStack |-> Push]
    /\ phase' = "check"
    /\ resume' = "none"
    /\ state' = NoState
    /\ lastCheck' = NoCheck
    /\ issue' = NoIssue
    /\ ops' = ops + 1
    /\ api' = NoApi
    /\ UNCHANGED <<dbg, breakpoints, pcBreakpoints, seen, listed, stash>>

\* debugger.go 833-847: the read lock is kept until RunString has returned.
Evaluate ==
    /\ phase = "handler"
    /\ dbg.handler = "probe"
    /\ ops < budget
    /\ Len(outer) < MaxEvalDepth
    /\ RunString(TRUE, FALSE, 0)
    /\ mu' = mu + 1
    /\ UNCHANGED globalObject

\* frame.ctx.stash is there (debugger.go 868): the frame is of a function
\* that declares bindings.
HasStash(frame) == frame.prg \in PrgNames /\ Decls[frame.prg] # <<>>

\* debugger.go 890-897: the object that carries the frame's bindings, each
\* under its name with an underscore in front.
Underscored ==
    [p |-> "_p", q |-> "_q", r |-> "_r", s |-> "_s"]

Carrier(frame) ==
    LET live == GetLocalVariables(frame)
    IN  varsObj([k \in DOMAIN live |->
                   [name |-> Underscored[live[k].name],
                    value |-> live[k].value]])

\* The call stack EvaluateInFrame sees: none before the run has started.
EvalStack == IF phase = "idle" THEN <<>> ELSE CaptureCallStack

\* EvaluateInFrame returns at once with an error.
Refuses(frameIndex) ==
    /\ UNCHANGED <<budget, fnName, debugMode, variableRefs,
                   nextVarRef>>
    /\ answer' = [Answer("eval", frameIndex) EXCEPT
                    !.flag = TRUE,
                    !.name = IF phase = "idle"
                             THEN "no active execution context"
                             ELSE "invalid frame index"]
    /\ ops' = ops + 1
    /\ api' = NoApi
    /\ UNCHANGED <<dbg, breakpoints, pcBreakpoints, vm, phase, resume, state,
                   lastCheck, issue, seen, listed, outer, globalObject,
                   stash, mu>>

\* An EvaluateInFrame that takes an index past the stack for the outermost
\* frame.
EvaluateInFrame_ClampsIndex(frameIndex) ==
    /\ phase \in {"idle", "handler"}
    /\ phase = "handler" => dbg.handler = "probe"
    /\ ops < budget
    /\ Len(outer) < MaxEvalDepth
    /\ mu' = mu
    /\ IF phase = "idle" \/ frameIndex < 0
       THEN Refuses(frameIndex)
       ELSE LET i == IF frameIndex >= Len(EvalStack) THEN Len(EvalStack) - 1
                     ELSE frameIndex
            IN  IF ~HasStash(EvalStack[i + 1])
                THEN RunString(FALSE, FALSE, frameIndex) /\ UNCHANGED globalObject
                ELSE /\ RunString(FALSE, TRUE, frameIndex)
                     /\ globalObject' = Carrier(EvalStack[i + 1])

\* debugger.go 849-917. The read lock is taken on entry and released on
\* every path before the expression runs or the error is returned (854,
\* 861, 869, 906). With no execution under way, or with an index outside
\* the stack, nothing is evaluated; a frame without a stash has the
\* expression run as it is; otherwise the carrier takes the place of the
\* global object while the wrapped expression runs.
EvaluateInFrame(frameIndex) ==
    /\ phase \in {"idle", "handler"}
    /\ phase = "handler" => dbg.handler = "probe"
    /\ ops < budget
    /\ Len(outer) < MaxEvalDepth
    /\ mu' = mu
    /\ IF frameIndex < 0 \/ frameIndex >= Len(EvalStack)
       THEN Refuses(frameIndex)
       ELSE IF ~HasStash(EvalStack[frameIndex + 1])
       THEN RunString(FALSE, FALSE, frameIndex) /\ UNCHANGED globalObject
       ELSE /\ RunString(FALSE, TRUE, frameIndex)
            /\ globalObject' = Carrier(EvalStack[frameIndex + 1])

\* A Resumes that puts the global object back only after a success.
Resumes_KeepsCarrierOnError(failed) ==
    /\ outer # <<>>
    /\ LET top == outer[Len(outer)]
       IN  /\ vm' = top.vm
           /\ resume' = top.resume
           /\ state' = top.state
           /\ lastCheck' = top.lastCheck
           /\ issue' = top.issue
           /\ mu' = IF top.locked THEN mu - 1 ELSE mu
           /\ globalObject' =
                IF top.restore /\ ~failed THEN top.savedGlobal
                ELSE globalObject
    /\ outer' = SubSeq(outer, 1, Len(outer) - 1)
    /\ phase' = "handler"
    /\ answer' = [Answer("eval", outer[Len(outer)].frameIndex) EXCEPT
                    !.flag = failed,
                    !.name = IF failed THEN "exception" ELSE ""]
    /\ api' = NoApi
    /\ UNCHANGED <<dbg, breakpoints, pcBreakpoints, seen, ops, listed, stash,
                   budget, fnName, debugMode, variableRefs,
                   nextVarRef>>

\* RunString is back in the evaluator, with a value or (failed) with the
\* error the expression raised: a deferred unlock runs (836), the global
\* object is put back (912) and the handler that called goes on.
Resumes(failed) ==
    /\ outer # <<>>
    /\ LET top == outer[Len(outer)]
       IN  /\ vm' = top.vm
           /\ resume' = top.resume
           /\ state' = top.state
           /\ lastCheck' = top.lastCheck
           /\ issue' = top.issue
           /\ mu' = IF top.locked THEN mu - 1 ELSE mu
           /\ globalObject' =
                IF top.restore THEN top.savedGlobal ELSE globalObject
    /\ outer' = SubSeq(outer, 1, Len(outer) - 1)
    /\ phase' = "handler"
    /\ answer' = [Answer("eval", outer[Len(outer)].frameIndex) EXCEPT
                    !.flag = failed,
                    !.name = IF failed THEN "exception" ELSE ""]
    /\ api' = NoApi
    /\ UNCHANGED <<dbg, breakpoints, pcBreakpoints, seen, ops, listed, stash,
                   budget, fnName, debugMode, variableRefs,
                   nextVarRef>>

\* The evaluated program returns: RunString returns its value.
EvaluateReturns ==
    /\ phase = "exec" /\ ~InNative
    /\ vm.prg = "expr"
    /\ Instr(vm.prg, vm.pc).op = "ret"
    /\ Resumes(FALSE)

\* The expression raises an error: RunString returns it.
EvaluateFails ==
    /\ phase = "exec" /\ ~InNative
    /\ vm.prg = "expr"
    /\ Instr(vm.prg, vm.pc).op = "assign"
    /\ Resumes(TRUE)

\* Executing an instruction leaves the debugger alone; the predicate has
\* not been asked yet for the instruction that comes next.
NoDebuggerChange ==
    /\ lastCheck' = NoCheck
    /\ api' = NoApi
    /\ UNCHANGED <<dbg, breakpoints, pcBreakpoints, resume, state, issue,
                   seen, ops, listed>>

\* An instruction that is neither a call, a return nor a pause directive.
ExecOp ==
    /\ NoInspection
    /\ NoEvaluation
    /\ phase = "exec" /\ ~InNative
    /\ Instr(vm.prg, vm.pc).op = "op"
    /\ vm' = [vm EXCEPT !.pc = @ + 1]
    /\ phase' = "check"
    /\ NoDebuggerChange
    /\ UNCHANGED outer

\* The expression under evaluation assigns to the name q. Inside the
\* wrapper of debugger.go 875-887 q is the wrapper's own var, filled from
\* the carrier; without the wrapper q is looked up from the global scope.
\* Either way the assignment does not reach the binding of a paused frame.
ExecAssign ==
    /\ NoInspection
    /\ phase = "exec" /\ ~InNative
    /\ Instr(vm.prg, vm.pc).op = "assign"
    /\ vm' = [vm EXCEPT !.pc = @ + 1]
    /\ phase' = "check"
    /\ NoDebuggerChange
    /\ UNCHANGED <<outer, globalObject, stash, mu>>

\* A call of an interpreted function: the context is saved and the callee
\* starts at pc 0.
ExecCall ==
    /\ NoInspection
    /\ NoEvaluation
    /\ phase = "exec" /\ ~InNative
    /\ Instr(vm.prg, vm.pc).op = "call"
    /\ Instr(vm.prg, vm.pc).target \in PrgNames
    /\ vm' = [prg |-> Instr(vm.prg, vm.pc).target, pc |-> 0, callStack |-> Push]
    /\ phase' = "check"
    /\ NoDebuggerChange
    /\ UNCHANGED outer

\* A call of a native function: the context is saved and the VM has no
\* program while the host function runs.
ExecCallNative ==
    /\ NoInspection
    /\ NoEvaluation
    /\ phase = "exec" /\ ~InNative
    /\ Instr(vm.prg, vm.pc).op = "call"
    /\ Instr(vm.prg, vm.pc).target \in NativeFuncs
    /\ vm' = [vm EXCEPT !.prg = NoPrg, !.callStack = Push]
    /\ phase' = "check"
    /\ NoDebuggerChange
    /\ UNCHANGED outer

\* The native function returns to the instruction after the call.
ExecNativeReturn ==
    /\ NoInspection
    /\ NoEvaluation
    /\ phase = "exec" /\ InNative
    /\ LET top == vm.callStack[Len(vm.callStack)]
       IN  vm' = [prg |-> top.prg, pc |-> top.pc + 1,
                  callStack |-> SubSeq(vm.callStack, 1, Len(vm.callStack) - 1)]
    /\ phase' = "check"
    /\ NoDebuggerChange
    /\ UNCHANGED outer

\* A return: to the instruction after the call, or the end of the run.
ExecRet ==
    /\ NoInspection
    /\ NoEvaluation
    /\ phase = "exec" /\ ~InNative
    /\ Instr(vm.prg, vm.pc).op = "ret"
    /\ vm.prg # "expr"
    /\ IF vm.callStack = <<>>
       THEN /\ vm' = vm
            /\ phase' = "done"
       ELSE /\ LET top == vm.callStack[Len(vm.callStack)]
               IN  vm' = [prg |-> top.prg, pc |-> top.pc + 1,
                          callStack |->
                            SubSeq(vm.callStack, 1, Len(vm.callStack) - 1)]
            /\ phase' = "check"
    /\ NoDebuggerChange
    /\ UNCHANGED outer

\* The pause directive (the debugger statement) calls handlePause itself.
ExecDirective ==
    /\ NoInspection
    /\ NoEvaluation
    /\ phase = "exec" /\ ~InNative
    /\ Instr(vm.prg, vm.pc).op = "debugger"
    /\ handlePause(dbg, "next")
    /\ lastCheck' = NoCheck
    /\ api' = NoApi
    /\ UNCHANGED <<breakpoints, pcBreakpoints, issue, ops, listed, outer>>

---------------------------------------------------------------------------
\* The inspection calls a handler makes while the VM is paused.

MaxFrame == 3

InspectionCall ==
    /\ phase = "handler"
    /\ ~Locked
    /\ ops < budget
    /\ ops' = ops + 1
    /\ api' = NoApi
    /\ UNCHANGED <<dbg, breakpoints, pcBreakpoints, vm, resume, state,
                   lastCheck, issue, seen, listed, outer, budget, fnName,
                   debugMode,
                   globalObject, stash, mu>>

\* A GetScopes that empties the registry and numbers its scopes from the
\* base again.
GetScopes_StartsOver(frameID) ==
    /\ InspectionCall
    /\ phase' = phase
    /\ IF frameID >= Len(vm.callStack)
       THEN /\ answer' = Answer("scopes", frameID)
            /\ UNCHANGED <<variableRefs, nextVarRef>>
       ELSE /\ variableRefs' =
                 Put(Put(<<>>, 1000, ScopeEntry(frameID, "local")),
                     1001, ScopeEntry(frameID, "global"))
            /\ nextVarRef' = 1002
            /\ answer' =
                 [Answer("scopes", frameID) EXCEPT !.scopes =
                    <<[Name |-> "Local", VariablesRef |-> 1000,
                       Expensive |-> FALSE],
                      [Name |-> "Global", VariablesRef |-> 1001,
                       Expensive |-> TRUE]>>]

\* debugger.go 571-597 with createVariableRef (600-609).
GetScopes(frameID) ==
    /\ InspectionCall
    /\ phase' = phase
    /\ IF frameID >= Len(vm.callStack)
       THEN /\ answer' = Answer("scopes", frameID)
            /\ UNCHANGED <<variableRefs, nextVarRef>>
       ELSE /\ variableRefs' =
                 Put(Put(variableRefs, nextVarRef, ScopeEntry(frameID, "local")),
                     nextVarRef + 1, ScopeEntry(frameID, "global"))
            /\ nextVarRef' = nextVarRef + 2
            /\ answer' =
                 [Answer("scopes", frameID) EXCEPT
                    !.held = "read",
                    !.scopes =
                    <<[Name |-> "Local", VariablesRef |-> nextVarRef,
                       Expensive |-> FALSE],
                      [Name |-> "Global", VariablesRef |-> nextVarRef + 1,
                       Expensive |-> TRUE]>>]

\* The lock of d.mu under which GetVariables writes the registry: the
\* read lock it holds itself for a handle that is not negative (debugger.go
\* 618-619); for a lazy handle it holds none (614-615), and only the local
\* case takes the write lock for each handle it issues (674-679).
HeldWhileWriting(variablesRef) ==
    IF variablesRef >= 0 THEN "read"
    ELSE IF (-variablesRef) % 10 = 1 THEN "write"
    ELSE "none"

\* What GetVariables does with a result r of the materializer.
Returns(variablesRef, r) ==
    /\ phase' = phase
    /\ answer' = [Answer("vars", variablesRef) EXCEPT
                    !.vars = r.vars,
                    !.held = HeldWhileWriting(variablesRef)]
    /\ variableRefs' = r.refs
    /\ nextVarRef' = r.next

\* debugger.go 611-646. A negative handle is resolved without a lock; any
\* other is looked up under the read lock, which GetVariables still holds
\* when the local case asks for the write lock (675): the call never
\* returns.
GetVariables(variablesRef) ==
    /\ InspectionCall
    /\ IF variablesRef < 0
       THEN Returns(variablesRef,
                    resolveLazyScope(variablesRef, variableRefs, nextVarRef))
       ELSE IF variablesRef \notin DOMAIN variableRefs
       THEN Returns(variablesRef, Nothing(variableRefs, nextVarRef))
       ELSE LET data == variableRefs[variablesRef]
            IN  IF data.type = "object"
                THEN Returns(variablesRef,
                             getObjectProperties(data.obj, variableRefs,
                                                 nextVarRef))
                ELSE IF TakesWriteLock(data.frameID, data.type)
                THEN /\ phase' = "wedged"
                     /\ answer' = Answer("blocked", variablesRef)
                     /\ UNCHANGED <<variableRefs, nextVarRef>>
                ELSE Returns(variablesRef,
                             getVariablesForScope(data.frameID, data.type,
                                                  variableRefs, nextVarRef))

\* debugger.go 919-930
IsInNativeCall ==
    /\ InspectionCall
    /\ phase' = phase
    /\ answer' = [Answer("native", 0) EXCEPT !.flag = (vm.prg = NoPrg)]
    /\ UNCHANGED <<variableRefs, nextVarRef>>

\* debugger.go 932-956: the callee sits below the stack base of a native
\* call; its name property is returned as it is.
NativeFunctionName ==
    IF vm.prg # NoPrg THEN ""
    ELSE IF Len(vm.callStack) > 0 THEN fnName
    ELSE "<native>"

GetNativeFunctionName ==
    /\ InspectionCall
    /\ phase' = phase
    /\ answer' = [Answer("name", 0) EXCEPT !.name = NativeFunctionName]
    /\ UNCHANGED <<variableRefs, nextVarRef>>

\* The handles a caller may try: zero, one below the first ever issued,
\* the one not issued yet, every one issued, and the lazy ones.
Handles ==
    {0, 999, nextVarRef} \cup DOMAIN variableRefs
        \cup {-(i * 10 + k) : i \in 0..MaxFrame, k \in 1..3}

---------------------------------------------------------------------------
Next ==
    \/ \E h \in Policies : SetHandler(h)
    \/ \E t \in BpTargets : AddBreakpoint(t[1], t[2], 0)
    \/ \E id \in 0..(MaxOps - 1) : RemoveBreakpoint(id)
    \/ \E id \in 0..(MaxOps - 1), en \in BOOLEAN : EnableBreakpoint(id, en)
    \/ GetBreakpoints
    \/ \E en \in BOOLEAN : SetStepModeCall(en)
    \/ PauseCall
    \/ RunProgram
    \/ Check
    \/ HandlerReturn
    \/ HandlerPanics
    \/ HostBlocks
    \/ Evaluate
    \/ EvaluateInFrame(0)
    \/ EvaluateReturns
    \/ EvaluateFails
    \/ ExecAssign
    \/ ExecOp
    \/ ExecCall
    \/ ExecCallNative
    \/ ExecNativeReturn
    \/ ExecRet
    \/ ExecDirective

Spec == Init /\ [][Next]_vars

\* A session that only manages breakpoints: the host registers a handler
\* that always continues, edits and lists the table, and runs the script.
InitTable == Start(MaxTableOps, "native", TRUE)

NextTable ==
    \/ SetHandler("continue")
    \/ \E t \in BpTargets : AddBreakpoint(t[1], t[2], 0)
    \/ \E id \in 0..dbg.nextID : RemoveBreakpoint(id)
    \/ \E id \in 0..dbg.nextID, en \in BOOLEAN : EnableBreakpoint(id, en)
    \/ GetBreakpoints
    \/ RunProgram
    \/ Check
    \/ HandlerReturn
    \/ ExecOp
    \/ ExecCall
    \/ ExecCallNative
    \/ ExecNativeReturn
    \/ ExecRet
    \/ ExecDirective

SpecTable == InitTable /\ [][NextTable]_vars

\* A session that inspects the paused VM: the host turns step mode on, the
\* handler looks at scopes and variables and answers any command. The
\* script's native function has a name or an empty one.
InitVars ==
    \E run \in {<<"native", TRUE>>, <<"", FALSE>>} :
        Start(MaxInspectOps, run[1], run[2])

NextVars ==
    \/ SetHandler("any")
    \/ SetStepModeCall(TRUE)
    \/ \E frameID \in -1..MaxFrame : GetScopes(frameID)
    \/ \E ref \in Handles : GetVariables(ref)
    \/ IsInNativeCall
    \/ GetNativeFunctionName
    \/ RunProgram
    \/ Check
    \/ HandlerReturn
    \/ ExecOp
    \/ ExecCall
    \/ ExecCallNative
    \/ ExecNativeReturn
    \/ ExecRet
    \/ ExecDirective

SpecVars == InitVars /\ [][NextVars]_vars

\* A session that evaluates in frames: the host turns step mode on and may
\* call the evaluator before the run; the handler evaluates in any frame,
\* or in none that exists, and continues.
InitEval == Start(MaxEvalOps, "native", TRUE)

NextEval ==
    \/ SetHandler("probe")
    \/ SetStepModeCall(TRUE)
    \/ PauseCall
    \/ \E frameIndex \in -1..MaxFrame : EvaluateInFrame(frameIndex)
    \/ EvaluateReturns
    \/ EvaluateFails
    \/ ExecAssign
    \/ RunProgram
    \/ Check
    \/ HandlerReturn
    \/ ExecOp
    \/ ExecCall
    \/ ExecCallNative
    \/ ExecNativeReturn
    \/ ExecRet
    \/ ExecDirective

SpecEval == InitEval /\ [][NextEval]_vars

\* A session of several runs: the host sets breakpoints, with any column,
\* before the first run and from the handler, and runs one script after
\* the other; the handler always continues.
BpColumns == {0, 7}

Scripts == {"main", "f"}

InitRuns == Start(MaxRunOps, "native", TRUE)

NextRuns ==
    \/ SetHandler("continue")
    \/ \E t \in BpTargets, column \in BpColumns :
          AddBreakpoint(t[1], t[2], column)
    \/ RunProgram
    \/ \E p \in Scripts : RunAgain(p)
    \/ Check
    \/ HandlerReturn
    \/ ExecOp
    \/ ExecCall
    \/ ExecCallNative
    \/ ExecNativeReturn
    \/ ExecRet
    \/ ExecDirective

SpecRuns == InitRuns /\ [][NextRuns]_vars

\* A session that steps: the handler answers StepOver at every pause; the
\* host turns step mode on or asks for a pause, runs the main script and
\* then h, a script whose call of g is followed by instructions without
\* a source position.
InitStep == Start(MaxStepOps, "native", TRUE)

NextStep ==
    \/ SetHandler("over")
    \/ SetStepModeCall(TRUE)
    \/ PauseCall
    \/ RunProgram
    \/ RunAgain("h")
    \/ Check
    \/ HandlerReturn
    \/ ExecOp
    \/ ExecCall
    \/ ExecCallNative
    \/ ExecNativeReturn
    \/ ExecRet
    \/ ExecDirective

SpecStep == InitStep /\ [][NextStep]_vars

\* The shape of the state: every index entry points into the table.
TypeOK ==
    /\ \A c \in DOMAIN pcBreakpoints : pcBreakpoints[c] \in DOMAIN breakpoints
    /\ dbg.flags \subseteq {FlagStepMode, FlagPaused}
    /\ dbg.stepMode \in DebugCommand
    /\ phase \in {"idle", "check", "exec", "handler", "done", "wedged",
                  "aborted"}

---------------------------------------------------------------------------
\* Vocabulary of the properties.

\* The predicate has been asked for the current instruction (or context).
Asked == lastCheck.why # "unasked"

\* The handler is running for a pause the predicate asked for.
PredicatePause == phase = "handler" /\ resume = "exec"

\* The predicate's answer came from the step machine, not from a
\* breakpoint or an asynchronous pause request.
StepCaused ==
    \/ lastCheck.why \in {"stepinto", "stepover", "stepout"}
    \/ lastCheck.why = "native" /\ FlagPaused \notin lastCheck.flags

\* The breakpoints of the table that are enabled, resolved to pc c and
\* indexed there.
EnabledAt(c) ==
    {id \in DOMAIN breakpoints :
        /\ breakpoints[id].enabled
        /\ breakpoints[id].pc = c
        /\ c \in DOMAIN pcBreakpoints
        /\ pcBreakpoints[c] = id}

\* A Check step: the VM thread asks the predicate.
IsCheckStep == phase = "check" /\ phase' # "check"

\* Program p has a call of an interpreted function at or after pc c on the
\* source line of c.
CallAhead(p, c) ==
    /\ p \in PrgNames
    /\ CurrentLine(p, c) > 0
    /\ \E k \in c..(Len(Programs[p].code) - 1) :
         /\ IsCall(p, k)
         /\ Instr(p, k).target \in PrgNames
         /\ CurrentLine(p, k) = CurrentLine(p, c)
         /\ \A j \in c..k : CurrentLine(p, j) = CurrentLine(p, c)

\* The callee of the first such call.
CalleeAhead(p, c) ==
    LET ks == {k \in c..(Len(Programs[p].code) - 1) : IsCall(p, k)}
        k == CHOOSE x \in ks : \A y \in ks : x <= y
    IN  Instr(p, k).target

\* The first pc of program p that has a source position.
FirstValidPC(p) ==
    LET cs == {c \in 0..(Len(Programs[p].code) - 1) : CurrentLine(p, c) > 0}
    IN  CHOOSE c \in cs : \A x \in cs : c <= x

\* Program p has no call instruction.
NoCalls(p) ==
    p \in PrgNames /\ \A c \in 0..(Len(Programs[p].code) - 1) : ~IsCall(p, c)

---------------------------------------------------------------------------
\* C1. Every time execution reaches the pc of an enabled, resolved (and
\* indexed) breakpoint the predicate pauses, the handler (when one is registered) is
\* invoked and that breakpoint's hit count goes up by exactly one, whatever
\* the step command and whether or not an async pause is pending.
C1_BreakpointAlwaysHits ==
    [][(IsCheckStep /\ ~InNative) =>
         \A id \in EnabledAt(vm.pc) :
            /\ lastCheck'.ret
            /\ breakpoints'[id].hit = breakpoints[id].hit + 1
            /\ dbg.handler # NoHandler => phase' = "handler"]_vars

\* C2. After StepOut issued at depth d0, a stepping-caused pause happens
\* only at depth < d0, and no interpreted instruction at depth < d0 is
\* passed without pausing while that StepOut is in force.
C2_StepOutPausesInCaller ==
    (issue.cmd = DebugStepOut /\ issue.prg \in PrgNames /\ Asked /\ ~InNative) =>
        /\ (PredicatePause /\ StepCaused) => Depth < issue.depth
        /\ (phase = "exec" /\ Depth < issue.depth) => lastCheck.ret

\* C3. In a function without calls, a StepOver issued at a pause never
\* leads to a step pause on the same source line at the same depth.
C3_StepOverNewLine ==
    (PredicatePause /\ lastCheck.why = "stepover" /\ issue.cmd = DebugStepOver
        /\ NoCalls(vm.prg) /\ issue.prg = vm.prg /\ Depth = issue.depth)
    => state.Line # issue.line

\* C4. After StepOver issued at a call instruction at depth d0 no
\* stepping-caused pause occurs at depth > d0, and the next stepping-caused
\* pause is on another line than the call site.
C4_StepOverSkipsCallee ==
    (PredicatePause /\ StepCaused /\ issue.cmd = DebugStepOver
        /\ lastCheck.stepMode = DebugStepOver
        /\ issue.prg \in PrgNames /\ IsCall(issue.prg, issue.pc))
    => /\ Depth <= issue.depth
       /\ state.Line # issue.line

\* C5. With a handler that always answers StepOver, and no async pause
\* request, the handler is never invoked in a native context.
C5_StepOverNoNativeEvent ==
    (phase = "handler" /\ dbg.handler = "over" /\ Asked
        /\ FlagPaused \notin lastCheck.flags)
    => ~state.InNativeCall

\* C6. With a handler that always answers Continue: a native context
\* entered while the step-mode flag is set pauses with InNativeCall = TRUE,
\* and a run started with the flag set pauses at its first interpreted
\* instruction with InNativeCall = FALSE.
C6_NativeEventsUnderStepFlag ==
    (dbg.handler = "continue" /\ Asked /\ FlagStepMode \in lastCheck.flags) =>
        /\ InNative =>
              /\ lastCheck.ret
              /\ phase = "handler" => state.InNativeCall
              /\ phase = "exec" => "native" \in seen
        /\ (~InNative /\ vm.prg = "main" /\ vm.pc = 0) =>
              /\ lastCheck.ret
              /\ phase = "handler" => ~state.InNativeCall
              /\ phase = "exec" => "js" \in seen

C6_Witness ==
    /\ dbg.handler = "continue" /\ FlagStepMode \in lastCheck.flags
    /\ InNative /\ phase = "handler" /\ state.InNativeCall
    /\ issue.cmd = DebugContinue
    /\ {"js", "native"} \subseteq seen

\* C7 as stated. After the handler answered Continue, a pause the predicate
\* asks for is caused by a breakpoint or an async pause request, and its
\* snapshot reports StepMode = FALSE.
C7_ContinueLeavesStepMode ==
    (PredicatePause /\ issue.cmd = DebugContinue) =>
        /\ lastCheck.why = "breakpoint" \/ FlagPaused \in lastCheck.flags
        /\ ~state.StepMode

\* C7 as amended. Continue clears the paused flag and sets the step command
\* to Continue but leaves the step-mode flag as it was. So after the handler
\* answered Continue, an interpreted instruction pauses only for a
\* breakpoint or an async pause request, a native context pauses exactly
\* when one of the two flags is set, and the snapshot reports StepMode as
\* the flag was before the Continue.
C7_ContinueKeepsStepFlag ==
    /\ (issue.cmd = DebugContinue /\ phase \in {"check", "exec"}) =>
          /\ dbg.stepMode = DebugContinue
          /\ (FlagStepMode \in dbg.flags) = issue.step
    /\ (PredicatePause /\ issue.cmd = DebugContinue) =>
          /\ state.StepMode = issue.step
          /\ ~state.InNativeCall =>
                lastCheck.why = "breakpoint" \/ FlagPaused \in lastCheck.flags
    /\ (issue.cmd = DebugContinue /\ InNative /\ Asked) =>
          /\ PredicatePause => issue.step \/ FlagPaused \in lastCheck.flags
          /\ (phase = "exec" /\ ~lastCheck.ret) =>
                ~issue.step /\ FlagPaused \notin lastCheck.flags

C7_Witness ==
    /\ PredicatePause /\ issue.cmd = DebugContinue
    /\ state.InNativeCall /\ state.StepMode
    /\ FlagPaused \notin lastCheck.flags

\* C8. While StepInto is active the predicate does not pause at a call
\* instruction, and after a StepInto issued on a line with a call ahead the
\* first step pause is at the callee's first instruction that has a valid
\* source position.
C8_StepIntoReachesCallee ==
    /\ (Asked /\ ~InNative /\ phase \in {"exec", "handler"}
          /\ FlagStepMode \in lastCheck.flags
          /\ lastCheck.stepMode = DebugStepInto /\ IsCall(vm.prg, vm.pc))
       => ~lastCheck.ret
    /\ (PredicatePause /\ lastCheck.why = "stepinto"
          /\ issue.cmd = DebugStepInto /\ CallAhead(issue.prg, issue.pc))
       => /\ vm.prg = CalleeAhead(issue.prg, issue.pc)
          /\ vm.pc = FirstValidPC(vm.prg)
          /\ state.Line > 0

\* C9. Every pause the StepInto case asks for is at an instruction with a
\* valid source position.
C9_StepIntoValidLine ==
    (PredicatePause /\ lastCheck.why = "stepinto") => state.Line > 0

\* C10. In a native context with neither flag set the predicate returns
\* false, whatever the pc and the breakpoint index hold, and the handler is
\* not invoked.
C10_NativeQuietWithoutFlags ==
    (InNative /\ Asked /\ lastCheck.flags = {}) =>
        /\ ~lastCheck.ret
        /\ phase = "exec"
        /\ state = NoState

C10_Witness ==
    /\ InNative /\ Asked /\ lastCheck.flags = {}
    /\ vm.pc \in DOMAIN pcBreakpoints
    /\ breakpoints[pcBreakpoints[vm.pc]].enabled
    /\ dbg.handler # NoHandler

\* C11. Once the async pause flag is set, the next predicate evaluation
\* returns true, in a native or an interpreted context, whatever the step
\* command and the kind of the instruction.
C11_PauseRequestHonoured ==
    (Asked /\ FlagPaused \in lastCheck.flags) => lastCheck.ret

\* C12. While an evaluator call made from the handler runs its expression,
\* the predicate never returns true and no nested handler invocation
\* happens.
C12_NoPauseWhileEvaluating ==
    (outer # <<>> /\ Asked) => (~lastCheck.ret /\ phase # "handler")

\* C16. A handler that panics instead of returning a command is treated as
\* Continue: once the failure has left the pause site the paused flag is
\* cleared and the step command is Continue.
C16_HandlerFailureIsContinue ==
    [][(phase = "handler" /\ phase' # "handler" /\ issue'.cmd = "panic") =>
         (FlagPaused \notin dbg'.flags /\ dbg'.stepMode = DebugContinue)]_vars

\* The context a VM without a debugger has after executing the instruction
\* of context v (the pause directive does nothing there).
VMStep(v) ==
    LET ins == Instr(v.prg, v.pc)
        n == Len(v.callStack)
        pop == [prg |-> v.callStack[n].prg, pc |-> v.callStack[n].pc + 1,
                callStack |-> SubSeq(v.callStack, 1, n - 1)]
        push == Append(v.callStack, [prg |-> v.prg, pc |-> v.pc])
    IN  CASE v.prg = NoPrg -> pop
          [] ins.op = "call" /\ ins.target \in PrgNames ->
                [prg |-> ins.target, pc |-> 0, callStack |-> push]
          [] ins.op = "call" ->
                [prg |-> NoPrg, pc |-> v.pc, callStack |-> push]
          [] ins.op = "ret" -> IF n = 0 THEN v ELSE pop
          [] OTHER -> [v EXCEPT !.pc = @ + 1]

\* C13. With a handler that always answers Continue the VM executes the
\* instructions a VM without a debugger executes, one after the other, and
\* is never stopped for good; and when no breakpoint, step mode or async
\* pause was ever asked for, the handler is invoked only by the pause
\* directive, once in the whole run.
C13_ContinueHandlerTransparent ==
    /\ [](dbg.handler = "continue" =>
            /\ phase \notin {"wedged", "aborted"}
            /\ (ops = 0 /\ phase = "handler") =>
                  Instr(vm.prg, vm.pc).op = "debugger"
            /\ (ops = 0 /\ phase = "done") => seen = {"js"}
            /\ (ops = 0 /\ phase # "done") => seen \subseteq {"js"})
    /\ [][(dbg.handler = "continue" /\ phase # "idle" /\ vm' # vm) =>
            (vm' = VMStep(vm) /\ phase \in {"exec", "handler"})]_vars

C13_Witness ==
    /\ dbg.handler = "continue" /\ ops = 0 /\ phase = "done"
    /\ seen = {"js"} /\ issue.cmd = DebugContinue
    /\ issue.prg = "main" /\ Instr(issue.prg, issue.pc).op = "debugger"

\* A pause is triggered: the predicate returns true, or the pause directive
\* is executed.
PauseTriggered ==
    \/ IsCheckStep /\ lastCheck'.ret
    \/ phase = "exec" /\ ~InNative /\ Instr(vm.prg, vm.pc).op = "debugger"
          /\ phase' # "exec"

\* C14. With no handler registered a triggered pause behaves as Continue:
\* the paused flag is cleared, the step command becomes Continue, no
\* callback runs and the VM goes on with the instruction at hand.
C14_NoHandlerAutoContinues ==
    /\ [](dbg.handler = NoHandler =>
            /\ phase \notin {"handler", "wedged", "aborted"}
            /\ seen = {} /\ state = NoState)
    /\ [][(dbg.handler = NoHandler /\ PauseTriggered) =>
            /\ FlagPaused \notin dbg'.flags
            /\ dbg'.stepMode = DebugContinue
            /\ dbg'.flags \ {FlagPaused} = dbg.flags \ {FlagPaused}
            /\ IF phase = "check"
               THEN phase' = "exec" /\ vm' = vm
               ELSE phase' = "check" /\ vm' = VMStep(vm)]_vars

C14_Witness ==
    /\ dbg.handler = NoHandler /\ phase = "exec"
    /\ lastCheck.ret /\ lastCheck.why = "stepinto"
    /\ FlagPaused \notin dbg.flags /\ dbg.stepMode = DebugContinue

\* C15. When the handler answers Pause, execution resumes as if it had
\* answered Continue: on return from the pause site the paused flag is
\* cleared.
C15_PauseAnswerIsContinue ==
    [][(phase = "handler" /\ phase' \in {"exec", "check"} /\ outer' = outer
          /\ issue'.cmd = DebugPause)
       => FlagPaused \notin dbg'.flags]_vars

\* C17: a breakpoint's hit count never decreases; it changes only by the
\* pause predicate counting one hit of that breakpoint while it is enabled,
\* so neither disabling nor re-enabling the breakpoint resets it.
C17_HitCountMonotone ==
    [][\A id \in DOMAIN breakpoints \cap DOMAIN breakpoints' :
         /\ breakpoints'[id].hit >= breakpoints[id].hit
         /\ breakpoints'[id].hit # breakpoints[id].hit =>
              /\ IsCheckStep
              /\ breakpoints[id].enabled
              /\ breakpoints'[id].hit = breakpoints[id].hit + 1
              /\ lastCheck'.hit = id]_vars

\* A breakpoint that was listed disabled with hits is enabled again and
\* still has them.
C17_Witness ==
    \E id \in DOMAIN breakpoints \cap DOMAIN listed :
        /\ ~listed[id].enabled
        /\ listed[id].hit > 0
        /\ breakpoints[id].enabled
        /\ breakpoints[id].hit >= listed[id].hit
        /\ api = [op |-> "enable", id |-> id, ret |-> TRUE]

\* C18: removing or enabling an id the table does not hold returns false
\* and leaves the table, the pc index, the hit counts and the id counter as
\* they were.
C18_UnknownIdChangesNothing ==
    [][(ops' = ops + 1 /\ api'.op \in {"remove", "enable"}
          /\ api'.id \notin DOMAIN breakpoints)
       => (/\ ~api'.ret
           /\ breakpoints' = breakpoints
           /\ pcBreakpoints' = pcBreakpoints
           /\ dbg'.nextID = dbg.nextID)]_vars

\* An unknown id was refused while the table holds a breakpoint with hits.
C18_Witness ==
    /\ api.op \in {"remove", "enable"}
    /\ ~api.ret
    /\ api.id \notin DOMAIN breakpoints
    /\ \E id \in DOMAIN breakpoints :
          breakpoints[id].hit > 0 /\ breakpoints[id].pc \in DOMAIN pcBreakpoints

\* C19: what a list returned by GetBreakpoints shows does not change with
\* later calls and hits: each listed breakpoint still in the table reads
\* enabled and hit as it did when the list was returned.
C19_ListIsSnapshot ==
    \A id \in DOMAIN listed \cap DOMAIN breakpoints :
        /\ breakpoints[id].enabled = listed[id].enabled
        /\ breakpoints[id].hit = listed[id].hit

\* The scopes of frame k (1-based) of the snapshot with the given name.
ScopesNamed(k, name) ==
    {j \in DOMAIN state.DebugStack[k].Scopes :
        state.DebugStack[k].Scopes[j].Name = name}

\* C20: in every snapshot handed to the handler DebugStack is as long as
\* CallStack and its frame i wraps CallStack[i]; frame i has one Local
\* scope, with reference -(i*10+1); frame 0 has one Global scope, with
\* reference -2, and no other frame has a Global scope.
C20_DebugStackMirrorsCallStack ==
    phase = "handler" =>
        /\ Len(state.DebugStack) = Len(state.CallStack)
        /\ \A k \in DOMAIN state.DebugStack :
              LET i == k - 1
                  sc == state.DebugStack[k].Scopes
              IN  /\ state.DebugStack[k].StackFrame = state.CallStack[k]
                  /\ Cardinality(ScopesNamed(k, "Local")) = 1
                  /\ \A j \in ScopesNamed(k, "Local") :
                        sc[j].VariablesRef = -(i * 10 + 1)
                  /\ i = 0 => /\ Cardinality(ScopesNamed(k, "Global")) = 1
                              /\ \A j \in ScopesNamed(k, "Global") :
                                    sc[j].VariablesRef = -2
                  /\ i > 0 => ScopesNamed(k, "Global") = {}

\* The handler holds a snapshot taken three calls deep.
C20_Witness ==
    /\ phase = "handler"
    /\ Len(state.DebugStack) >= 3
    /\ state.DebugStack[3].Scopes[1].VariablesRef = -21

\* The pause site builds a snapshot in this step.
SnapshotTaken ==
    phase \in {"check", "exec"} /\ phase' = "handler" /\ outer' = outer

\* C21: the snapshot names a breakpoint exactly when the pc index has an
\* entry for the current pc and that breakpoint is enabled; a pause at the
\* pc of a disabled breakpoint reports none.
C21_SnapshotBreakpointIffEnabled ==
    [][SnapshotTaken =>
         (state'.Breakpoint # None <=>
            /\ vm.pc \in DOMAIN pcBreakpoints
            /\ breakpoints[pcBreakpoints[vm.pc]].enabled)]_vars

\* C30: the pc index serves every breakpoint that is in the table with a
\* resolved pc and nothing else: each index entry names a breakpoint of the
\* table resolved to that pc, and each resolved breakpoint of the table
\* finds an entry at its pc, whatever was removed before.
C30_IndexMatchesTable ==
    /\ \A c \in DOMAIN pcBreakpoints :
          /\ pcBreakpoints[c] \in DOMAIN breakpoints
          /\ breakpoints[pcBreakpoints[c]].pc = c
    /\ \A id \in DOMAIN breakpoints :
          breakpoints[id].pc >= 0 => breakpoints[id].pc \in DOMAIN pcBreakpoints

\* C22: at every pause the snapshot's InNativeCall says whether the
\* innermost context has no compiled program, IsInNativeCall called from
\* the handler returns the same, and GetNativeFunctionName returns a
\* non-empty string in a native call and the empty string otherwise.
C22_NativeCallApiAgrees ==
    phase = "handler" =>
        /\ state.InNativeCall <=> vm.prg = NoPrg
        /\ answer.op = "native" => answer.flag = state.InNativeCall
        /\ answer.op = "name" => (answer.name # "" <=> state.InNativeCall)

\* A GetVariables call returns, or blocks, in this step.
VariablesAsked == ops' = ops + 1 /\ answer'.op \in {"vars", "blocked"}

\* The frame index a scope handle stands for is outside the call stack.
OutsideStack(frameID) == frameID < 0 \/ frameID >= Len(CaptureCallStack)

\* Handle ref is zero, was never allocated, is a lazy handle of a scope
\* kind other than 1 and 2, or names a frame outside the call stack.
UnusableHandle(ref) ==
    \/ ref = 0
    \/ ref > 0 /\ ref \notin DOMAIN variableRefs
    \/ ref < 0 /\ (-ref) % 10 \notin {1, 2}
    \/ ref < 0 /\ OutsideStack((-ref) \div 10)
    \/ /\ ref \in DOMAIN variableRefs
       /\ variableRefs[ref].type # "object"
       /\ OutsideStack(variableRefs[ref].frameID)

\* C23: GetVariables on such a handle returns an empty list, does not
\* block, and leaves the registry and its counter as they were.
C23_UnusableHandleIsEmpty ==
    [][(VariablesAsked /\ UnusableHandle(answer'.arg)) =>
         /\ answer'.op = "vars"
         /\ phase' = "handler"
         /\ answer'.vars = {}
         /\ variableRefs' = variableRefs
         /\ nextVarRef' = nextVarRef]_vars

\* A scope handle issued at an earlier, deeper pause was asked for at a
\* pause where its frame no longer exists; a frame of the stack has locals.
C23_Witness ==
    /\ answer.op = "vars" /\ answer.vars = {}
    /\ answer.arg \in DOMAIN variableRefs
    /\ variableRefs[answer.arg].type = "local"
    /\ variableRefs[answer.arg].frameID >= Len(CaptureCallStack)

\* The names of a list of Variables.
Names(variables) == {v.Name : v \in variables}

\* GetVariables returns for the same handle as the call just before it, in
\* the same pause with nothing in between.
AskedAgain ==
    /\ answer.op = "vars" /\ answer'.op = "vars"
    /\ ops' = ops + 1
    /\ answer'.arg = answer.arg

\* C24: within one pause, repeated GetVariables calls on the lazy Local
\* handle of a frame return the same set of names.
C24_LocalNamesStable ==
    [][(AskedAgain /\ answer.arg < 0 /\ (-answer.arg) % 10 = 1) =>
         Names(answer'.vars) = Names(answer.vars)]_vars

\* The lazy Local handle of a frame with an object binding was asked for
\* a second time: the object is registered under two handles.
C24_Witness ==
    /\ answer.op = "vars" /\ answer.arg < 0 /\ (-answer.arg) % 10 = 1
    /\ \E v \in answer.vars :
          /\ v.Ref = nextVarRef - 1
          /\ v.Ref - 1 \in DOMAIN variableRefs
          /\ variableRefs[v.Ref - 1] = variableRefs[v.Ref]
    /\ Cardinality(answer.vars) > 1

\* The own string keys of object o.
OwnKeys(o) == {Objects[o][k].name : k \in DOMAIN Objects[o]}

\* C25: every Variable GetVariables returns whose value is an object has
\* a non-zero child handle that the registry holds for exactly that
\* object, and every other Variable has child handle 0; GetVariables on
\* an object's handle returns that object's own string-keyed properties.
C25_ObjectsCarryHandles ==
    /\ [](answer.op = "vars" =>
            \A v \in answer.vars :
                IF IsObject(v.Value)
                THEN /\ v.Ref # 0
                     /\ v.Ref \in DOMAIN variableRefs
                     /\ variableRefs[v.Ref] = ObjectEntry(v.Value.obj)
                ELSE v.Ref = 0)
    /\ [][(VariablesAsked /\ answer'.arg \in DOMAIN variableRefs
              /\ variableRefs[answer'.arg].type = "object") =>
             /\ answer'.op = "vars"
             /\ Names(answer'.vars) = OwnKeys(variableRefs[answer'.arg].obj)
             /\ \A v \in answer'.vars :
                   \E k \in DOMAIN Objects[variableRefs[answer'.arg].obj] :
                      /\ Objects[variableRefs[answer'.arg].obj][k].name = v.Name
                      /\ Objects[variableRefs[answer'.arg].obj][k].value = v.Value]_vars

\* The properties of an object were listed through its handle, and one of
\* them is an object again.
C25_Witness ==
    /\ answer.op = "vars"
    /\ answer.arg \in DOMAIN variableRefs
    /\ variableRefs[answer.arg].type = "object"
    /\ \E v \in answer.vars : IsObject(v.Value) /\ v.Ref > answer.arg
    /\ \E v \in answer.vars : ~IsObject(v.Value)

\* The lazy handle of the scope a registry entry describes.
LazyHandle(data) ==
    -(data.frameID * 10 + (IF data.type = "local" THEN 1 ELSE 2))

\* C26: for every frame index valid at the pause GetScopes returns a Local
\* and a Global scope, and GetVariables on each of their handles returns,
\* with the names GetVariables gives for the frame's lazy handle
\* -(i*10+1), resp. -(i*10+2).
C26_ScopeHandlesMatchLazy ==
    /\ []((answer.op = "scopes" /\ ~OutsideStack(answer.arg)) =>
            /\ Len(answer.scopes) = 2
            /\ answer.scopes[1].Name = "Local"
            /\ answer.scopes[2].Name = "Global")
    /\ [][(VariablesAsked /\ answer'.arg \in DOMAIN variableRefs
              /\ variableRefs[answer'.arg].type \in {"local", "global"}
              /\ ~OutsideStack(variableRefs[answer'.arg].frameID)) =>
             /\ answer'.op = "vars"
             /\ Names(answer'.vars) =
                  Names(resolveLazyScope(LazyHandle(variableRefs[answer'.arg]),
                                         variableRefs, nextVarRef).vars)]_vars

\* An evaluator call returns to the handler in this step.
EvaluationBack == Len(outer') < Len(outer) /\ phase' = "handler"

C28_BadFrameIsRefused ==
    [][/\ (ops' = ops + 1 /\ answer'.op = "eval" /\ outer' = outer
            /\ (phase = "idle" \/ answer'.arg < 0
                  \/ answer'.arg >= Len(EvalStack))) =>
           /\ answer'.flag
           /\ answer'.name \in {"no active execution context",
                                 "invalid frame index"}
           /\ UNCHANGED <<vm, phase, outer, globalObject, stash, dbg,
                          breakpoints, pcBreakpoints, variableRefs,
                          nextVarRef, mu>>
       /\ (Len(outer') > Len(outer)) =>
           /\ phase = "handler"
           /\ outer'[Len(outer')].frameIndex >= 0
           /\ outer'[Len(outer')].frameIndex < Len(CaptureCallStack)]_vars

\* An index one past the outermost frame was refused during a pause three
\* frames deep, and a call before the run was refused too.
C28_Witness ==
    /\ answer.op = "eval" /\ answer.flag
    /\ answer.name = "invalid frame index"
    /\ phase = "handler"
    /\ answer.arg = Len(CaptureCallStack)
    /\ answer.arg = 3
    /\ mu = 0

\* The handle names the Local scope of frame 0: the lazy handle -1, or a
\* handle GetScopes(0) registered.
LocalOfFrameZero(variablesRef) ==
    \/ variablesRef = -1
    \/ /\ variablesRef \in DOMAIN variableRefs
       /\ variableRefs[variablesRef] = ScopeEntry(0, "local")

\* The binding is in the list under its name and with its value.
Listed(b, variables) ==
    \E v \in variables : v.Name = b.name /\ v.Value = b.value

C29_WitnessSubset ==
    /\ ~debugMode
    /\ answer.op = "vars" /\ answer.arg = -1
    /\ phase = "handler"
    /\ CaptureCallStack[1].prg = "f" /\ CaptureCallStack[1].pc > 1
    /\ Names(answer.vars) = {"p"}

\* A program is loaded in this step: a run starts.
Loads == phase \in {"idle", "done"} /\ phase' = "check"

\* AddBreakpoint returns in this step.
Adds == ops' = ops + 1 /\ api'.op = "add"

\* The breakpoints a resolution is tried for in this step, and the program
\* it is tried against: the new one of an AddBreakpoint made with a
\* program loaded, the pending ones when a run starts.
Tried ==
    IF Adds /\ vm.prg # NoPrg THEN {api'.id}
    ELSE IF Loads THEN {id \in DOMAIN breakpoints : breakpoints[id].pc < 0}
    ELSE {}

Against == IF Loads THEN vm'.prg ELSE vm.prg

\* C31: a resolution gives the breakpoint the smallest pc of the loaded
\* program whose source-map entry is on the breakpoint's file and line,
\* whatever the column asked for, and indexes that pc; when no pc is on
\* the line the breakpoint stays unresolved, and when none of the
\* breakpoints tried resolves the index is unchanged.
C31_ResolvesToFirstPCOfLine ==
    [][/\ \A id \in Tried :
            LET b == breakpoints'[id]
                m == MatchingPCs(Against, b.file, b.line)
            IN  /\ m = {} => b.pc = None
                /\ m # {} => /\ b.pc \in m
                             /\ \A c \in m : b.pc <= c
                             /\ b.pc \in DOMAIN pcBreakpoints'
                             /\ pcBreakpoints'[b.pc] \in Tried
       /\ (\A id \in Tried : breakpoints'[id].pc = None)
             => pcBreakpoints' = pcBreakpoints]_vars

\* A breakpoint asked for line 2, column 7 got pc 1 of main, the first of
\* the three instructions of that line, and one on a file the program is
\* not from is still unresolved after the run started.
C31_Witness ==
    /\ vm.prg = "main"
    /\ \E id \in DOMAIN breakpoints :
          /\ breakpoints[id].line = 2 /\ breakpoints[id].column = 7
          /\ breakpoints[id].file = "a.js"
          /\ breakpoints[id].pc = 1
          /\ pcBreakpoints[1] = id
    /\ \E id \in DOMAIN breakpoints :
          /\ breakpoints[id].file = "b.js"
          /\ breakpoints[id].pc = None

\* C32: AddBreakpoint with no program loaded returns a new id and leaves
\* the breakpoint unresolved and the index alone; the pass at the start
\* of a run resolves every unresolved breakpoint whose line the loaded
\* program has, and keeps the pc, the enabled state and the hit count of
\* every breakpoint that was resolved before.
C32_PendingResolvesLater ==
    [][/\ (Adds /\ vm.prg = NoPrg) =>
            /\ api'.ret
            /\ api'.id \notin DOMAIN breakpoints
            /\ api'.id \in DOMAIN breakpoints'
            /\ breakpoints'[api'.id].pc = None
            /\ pcBreakpoints' = pcBreakpoints
       /\ Loads =>
            /\ DOMAIN breakpoints' = DOMAIN breakpoints
            /\ \A id \in DOMAIN breakpoints :
                  LET was == breakpoints[id]
                      now == breakpoints'[id]
                  IN  IF was.pc < 0
                      THEN MatchingPCs(vm'.prg, was.file, was.line) # {}
                              => now.pc >= 0
                      ELSE /\ now.pc = was.pc
                           /\ now.enabled = was.enabled
                           /\ now.hit = was.hit]_vars

\* A second run has just loaded f as a script: the breakpoint on line 6,
\* pending since before the first run, is resolved now, and the one on
\* line 2, resolved and hit in the first run, is as it was.
C32_Witness ==
    /\ vm = [prg |-> "f", pc |-> 0, callStack |-> <<>>]
    /\ phase = "check" /\ lastCheck = NoCheck
    /\ \E id \in DOMAIN breakpoints :
          /\ breakpoints[id].line = 6 /\ breakpoints[id].pc = 2
    /\ \E id \in DOMAIN breakpoints :
          /\ breakpoints[id].line = 2 /\ breakpoints[id].pc = 1
          /\ breakpoints[id].hit > 0

\* The handles issued in this step.
Issued == DOMAIN variableRefs' \ DOMAIN variableRefs

\* C33: the handles issued so far are 1000 up to the one before
\* nextVarRef; each step issues the next ones in order, hands out in the
\* scopes it returns only handles it has just issued, and leaves every
\* entry of the registry in place and pointing where it pointed.
C33_RegistryAppendOnly ==
    /\ [](DOMAIN variableRefs = 1000..(nextVarRef - 1))
    /\ [][/\ nextVarRef' >= nextVarRef
           /\ Issued = nextVarRef..(nextVarRef' - 1)
           /\ \A r \in DOMAIN variableRefs :
                 /\ r \in DOMAIN variableRefs'
                 /\ variableRefs'[r] = variableRefs[r]
           /\ answer'.op = "scopes" =>
                 \A k \in DOMAIN answer'.scopes :
                    /\ answer'.scopes[k].VariablesRef \in Issued
                    /\ \A j \in 1..(k - 1) :
                          answer'.scopes[j].VariablesRef
                             < answer'.scopes[k].VariablesRef
           /\ answer'.op = "vars" =>
                 \A v \in answer'.vars : v.Ref # 0 => v.Ref \in Issued]_vars

\* Four handles were issued in one pause: two scopes by GetScopes, then
\* an object of the Global scope, then an object inside that object.
C33_Witness ==
    /\ phase = "handler"
    /\ nextVarRef = 1004
    /\ variableRefs[1000].type = "local"
    /\ variableRefs[1001].type = "global"
    /\ variableRefs[1002] = ObjectEntry("o1")
    /\ variableRefs[1003] = ObjectEntry("o2")
    /\ answer.op = "vars" /\ answer.arg = 1002

\* The VM asks the predicate in this step.
PredicateAsked == phase = "check" /\ lastCheck'.why # "unasked"

\* C34: what the predicate leaves behind differs from what it found in
\* the paused flag, the deferred-call latch and the hit count of the
\* breakpoint indexed at the current pc, and in nothing else: the step
\* command, the depth baseline, lastLine, the step-mode flag, the handler,
\* the table's other fields, the index and the registry are as before.
C34_PredicateWritesLittle ==
    [][PredicateAsked =>
         LET r == checkBreakpoint(dbg, pcBreakpoints, breakpoints, vm.prg,
                                  vm.pc, Depth)
         IN  /\ r.d = [dbg EXCEPT !.flags = r.d.flags,
                                  !.continueStepAfterCall =
                                     r.d.continueStepAfterCall]
             /\ r.d.flags \ {FlagPaused} = dbg.flags \ {FlagPaused}
             /\ ~lastCheck'.ret => dbg' = r.d
             /\ DOMAIN breakpoints' = DOMAIN breakpoints
             /\ \A id \in DOMAIN breakpoints :
                   /\ breakpoints'[id] =
                        [breakpoints[id] EXCEPT !.hit = breakpoints'[id].hit]
                   /\ breakpoints'[id].hit # breakpoints[id].hit =>
                        /\ vm.pc \in DOMAIN pcBreakpoints
                        /\ pcBreakpoints[vm.pc] = id
             /\ pcBreakpoints' = pcBreakpoints
             /\ variableRefs' = variableRefs
             /\ nextVarRef' = nextVarRef]_vars

\* The predicate has counted a hit while a step-over was in force, and
\* the step command and its depth baseline are still there.
C34_Witness ==
    /\ phase = "handler"
    /\ lastCheck.why = "breakpoint"
    /\ lastCheck.hit \in DOMAIN breakpoints
    /\ breakpoints[lastCheck.hit].hit > 0
    /\ FlagStepMode \in lastCheck.flags
    /\ FlagStepMode \in dbg.flags
    /\ dbg.stepMode = DebugStepOver

\* C35: every handle is issued and every registry entry written while the
\* caller holds the write lock of d.mu.
C35_RegistryWrittenUnderWriteLock ==
    [][Issued # {} => answer'.held = "write"]_vars

\* C36: while StepOver is the step command, a pause the step-over case of
\* the predicate asks for is at an instruction with a source position: the
\* snapshot's line is not 0, at the depth of the command or after a return
\* to a shallower one.
C36_StepOverNeverOnLineZero ==
    (PredicatePause /\ lastCheck.why = "stepover") => state.Line > 0

\* C37: no call made from the handler asks for the write lock of d.mu
\* while its own thread holds the read lock: the VM thread is never left
\* waiting for a lock it keeps from being granted.
C37_NoSelfDeadlock == phase # "wedged"

\* C38: when the predicate counts a hit for a breakpoint, the instruction
\* about to execute is one of the running program's instructions on that
\* breakpoint's file and line.
C38_HitOnlyOnOwnLine ==
    [][(PredicateAsked /\ lastCheck'.why = "breakpoint") =>
         LET b == breakpoints[lastCheck'.hit]
         IN  vm.pc \in MatchingPCs(vm.prg, b.file, b.line)]_vars

\* The handler is invoked in this step.
HandlerInvoked == phase # "handler" /\ phase' = "handler"

\* C39: once Pause() has returned, the paused flag is not cleared before
\* the handler has been invoked: the step that follows the request either
\* keeps the flag or invokes the handler.
C39_PauseRequestNotLost ==
    [][(api.op = "pause" /\ dbg.handler # NoHandler
          /\ FlagPaused \notin dbg'.flags) => HandlerInvoked]_vars

====
